---- MODULE Spec2Model ----
(***************************************************************************)
(* ReStudy: the Record Store (appReducer and the DataProvider's callbacks) *)
(* and the Blob Store (services/imageStore, an IndexedDB object store).    *)
(*                                                                         *)
(* Records are TLA+ records whose DOMAIN is the set of fields the          *)
(* JavaScript object has: an optional field that is undefined is absent    *)
(* from the DOMAIN.  Arrays are sequences.  An image url is a pair         *)
(* <<scheme, body>>: <<"idb", k>> is the string `idb://k`, <<"data", b>>   *)
(* is the data URI of the bytes b.  crypto.randomUUID is a counter.        *)
(***************************************************************************)
EXTENDS Naturals, Sequences, FiniteSets, TLC

VARIABLES
    state,      \* AppState held by useReducer: [exams, questions, tags]
    blobs,      \* the IndexedDB object store 'images': key -> payload
    uuid,       \* number of values crypto.randomUUID has handed out
    db,         \* imageStore's dbPromise: "unopened", "open" or "failed"
    procs,      \* the asynchronous calls in flight, one per slot
    calls,      \* number of calls made so far (bounds the run)
    last,       \* history: the last action dispatched and the state before it
    importedData, \* HomeScreen's importedData: the validated document on offer, or <<>>
    localStorage, \* the keys 'exams', 'questions_meta' and 'tags' of window.localStorage
    mounted,    \* whether the effects of the provider's first render have run
    isInitialized \* the provider's isInitialized, as the last render saw it

vars == <<state, blobs, uuid, db, procs, calls, last, importedData,
          localStorage, mounted, isInitialized>>

\* ------------------------------------------------------------------ bounds

MaxCalls == 3
MaxImports == 2
MaxEdits == 2

\* ------------------------------------------------------------------ values

Procs == {1, 2}
ForeignIds == {100}
\* an id no record was ever given: a stale id held by a caller
UnknownIds == {99}

Has(r, f) == f \in DOMAIN r

\* {...a, ...b}
Spread(a, b) ==
    [f \in DOMAIN a \cup DOMAIN b |-> IF f \in DOMAIN b THEN b[f] ELSE a[f]]


\* the object without the property f
Omit(r, f) == [g \in DOMAIN r \ {f} |-> r[g]]

Range(s) == {s[i] : i \in 1..Len(s)}

Ids(s) == {s[i].id : i \in 1..Len(s)}

RECURSIVE Flat(_)
Flat(ss) == IF ss = <<>> THEN <<>> ELSE Head(ss) \o Flat(Tail(ss))

IdbUrl(k) == <<"idb", k>>
DataUri(b) == <<"data", b>>

IsImageKey(url) == url[1] = "idb"

IsBase64(url) == url[1] = "data"

\* [q.imageUrl, ...(q.answer?.imageUrls || [])]
ImageUrls(q) ==
    (IF Has(q, "imageUrl") THEN <<q.imageUrl>> ELSE <<>>)
    \o (IF Has(q, "answer") /\ Has(q.answer, "imageUrls")
        THEN q.answer.imageUrls ELSE <<>>)

\* questions.flatMap(q => [q.imageUrl, ...]).filter(isImageKey)
ImageKeysOf(qs) == SelectSeq(Flat([i \in 1..Len(qs) |-> ImageUrls(qs[i])]), IsImageKey)

\* ------------------------------------------------------------------ localStorage

\* The text under a key: JSON.stringify's output, which JSON.parse reads
\* back, or a text that JSON.parse throws on.
Stringify(value) == [json |-> value]
Unparseable == [unparseable |-> TRUE]
CanParse(text) == Has(text, "json")
JsonParse(text) == text.json

\* stored ? JSON.parse(stored) : []
ParseOrEmpty(ls, key) == IF Has(ls, key) THEN JsonParse(ls[key]) ELSE <<>>

EmptyState == [exams |-> <<>>, questions |-> <<>>, tags |-> <<>>]

\* initializer(): the three keys, [] for an absent key; the empty state when
\* JSON.parse throws
InitializerMutant(ls) == EmptyState
Initializer(ls) ==
    IF \A key \in DOMAIN ls : CanParse(ls[key])
    THEN [exams |-> ParseOrEmpty(ls, "exams"),
          questions |-> ParseOrEmpty(ls, "questions_meta"),
          tags |-> ParseOrEmpty(ls, "tags")]
    ELSE EmptyState

\* the questions_meta entry of a question: imageUrl only if it is a key, the
\* answer with the keys among its imageUrls; JSON.stringify leaves out a
\* property that is undefined
QuestionMetaMutant(q) == q
QuestionMeta(q) ==
    LET rest == Omit(Omit(q, "imageUrl"), "answer")
        img == IF Has(q, "imageUrl") /\ IsImageKey(q.imageUrl)
               THEN Spread(rest, [imageUrl |-> q.imageUrl]) ELSE rest
    IN IF Has(q, "answer")
       THEN Spread(img, [answer |->
                IF Has(q.answer, "imageUrls")
                THEN [q.answer EXCEPT !.imageUrls = SelectSeq(@, IsImageKey)]
                ELSE q.answer])
       ELSE img

\* the three setItem calls of the persistence effect
SetItems(s) ==
    [exams |-> Stringify(s.exams),
     questions_meta |-> Stringify([i \in 1..Len(s.questions) |-> QuestionMeta(s.questions[i])]),
     tags |-> Stringify(s.tags)]

\* The persistence effect of a render that saw `initialized` and the state s.
PersistenceEffectMutant(initialized, s, ls) == SetItems(s)
PersistenceEffect(initialized, s, ls) == IF initialized THEN SetItems(s) ELSE ls

\* ------------------------------------------------------------------ appReducer

HasId(m, id) == \E i \in 1..Len(m) : m[i].id = id

\* Map.get(id) || {}
MapGet(m, id) ==
    IF HasId(m, id) THEN m[CHOOSE i \in 1..Len(m) : m[i].id = id] ELSE <<>>

\* Map.set(v.id, v): an existing key keeps its position, a new key goes last
MapSet(m, v) ==
    IF HasId(m, v.id)
    THEN [i \in 1..Len(m) |-> IF m[i].id = v.id THEN v ELSE m[i]]
    ELSE Append(m, v)

\* new Map(arr.map(r => [r.id, r]))
RECURSIVE NewMap(_)
NewMap(arr) ==
    IF arr = <<>> THEN <<>> ELSE MapSet(NewMap(SubSeq(arr, 1, Len(arr) - 1)), arr[Len(arr)])

\* { ...(existingMap.get(r.id) || {}), ...r }
MergeRecordMutant(existing, r) == r
MergeRecord(existing, r) == Spread(existing, r)

\* incoming.forEach(r => map.set(r.id, {...(map.get(r.id) || {}), ...r}))
RECURSIVE MergeInto(_, _)
MergeInto(m, incoming) ==
    IF incoming = <<>> THEN m
    ELSE MergeInto(MapSet(m, MergeRecord(MapGet(m, Head(incoming).id), Head(incoming))),
                   Tail(incoming))

MergeCollectionMutant(existing, incoming) == NewMap(incoming)
MergeCollectionDup(existing, incoming) == existing \o incoming
MergeCollection(existing, incoming) == MergeInto(NewMap(existing), incoming)

ReduceMergeData(s, payload) ==
    [exams |-> MergeCollection(s.exams, payload.exams),
     questions |-> MergeCollection(s.questions, payload.questions),
     tags |-> MergeCollection(s.tags, payload.tags)]

ReduceReplaceDataMutant(s, payload) == [payload EXCEPT !.tags = s.tags \o payload.tags]
ReduceReplaceData(s, payload) == payload

ReduceDeleteExamMutant(s, examId) ==
    [s EXCEPT !.exams = SelectSeq(s.exams, LAMBDA e : e.id # examId),
              !.questions = SelectSeq(s.questions, LAMBDA q : q.examId # examId)]
ReduceDeleteExam(s, examId) ==
    [exams |-> SelectSeq(s.exams, LAMBDA e : e.id # examId),
     questions |-> SelectSeq(s.questions, LAMBDA q : q.examId # examId),
     tags |-> SelectSeq(s.tags, LAMBDA t : ~Has(t, "examId") \/ t.examId # examId)]

\* new Date().toISOString() in the reducer: the number of the call that is
\* running stands for the time of the clock
Now == calls + 1

AddTagMutant(q, ids, tagId) ==
    IF q.id \in ids
    THEN Spread(q, [tags |-> Append(q.tags, tagId), updatedAt |-> Now])
    ELSE q
AddTag(q, ids, tagId) ==
    IF q.id \in ids /\ tagId \notin Range(q.tags)
    THEN Spread(q, [tags |-> Append(q.tags, tagId), updatedAt |-> Now])
    ELSE q

\* DELETE_TAG: the tag goes, and leaves the tag set of every question
ReduceDeleteTagMutant(s, tagId) ==
    [s EXCEPT !.tags = SelectSeq(s.tags, LAMBDA t : t.id # tagId)]
ReduceDeleteTag(s, tagId) ==
    [s EXCEPT !.tags = SelectSeq(s.tags, LAMBDA t : t.id # tagId),
              !.questions = [i \in 1..Len(s.questions) |->
                    [s.questions[i] EXCEPT !.tags = SelectSeq(@, LAMBDA id : id # tagId)]]]

RemoveTagMutant(q, ids, tagId) ==
    IF q.id \in ids
    THEN Spread(q, [tags |-> SelectSeq(q.tags, LAMBDA id : id # tagId), updatedAt |-> Now])
    ELSE q
RemoveTag(q, ids, tagId) ==
    IF q.id \in ids /\ tagId \in Range(q.tags)
    THEN Spread(q, [tags |-> SelectSeq(q.tags, LAMBDA id : id # tagId), updatedAt |-> Now])
    ELSE q

ReduceAddTagToQuestions(s, ids, tagId) ==
    [s EXCEPT !.questions = [i \in 1..Len(s.questions) |-> AddTag(s.questions[i], ids, tagId)]]

AppReducer(s, action) ==
    CASE action.type = "ADD_EXAM" ->
            [s EXCEPT !.exams = Append(s.exams, action.payload)]
      [] action.type = "DELETE_EXAM" ->
            ReduceDeleteExam(s, action.examId)
      [] action.type = "ADD_QUESTIONS" ->
            [s EXCEPT !.questions = s.questions \o action.payload]
      [] action.type = "UPDATE_QUESTION" ->
            [s EXCEPT !.questions = [i \in 1..Len(s.questions) |->
                IF s.questions[i].id = action.questionId
                THEN Spread(s.questions[i], action.data)
                ELSE s.questions[i]]]
      [] action.type = "DELETE_QUESTION" ->
            [s EXCEPT !.questions = SelectSeq(s.questions, LAMBDA q : q.id # action.questionId)]
      [] action.type = "DELETE_QUESTIONS" ->
            [s EXCEPT !.questions =
                SelectSeq(s.questions, LAMBDA q : q.id \notin action.questionIds)]
      [] action.type = "REPLACE_DATA" -> ReduceReplaceData(s, action.payload)
      [] action.type = "MERGE_DATA" -> ReduceMergeData(s, action.payload)
      [] action.type = "ADD_TAG" ->
            [s EXCEPT !.tags = Append(s.tags, action.payload)]
      [] action.type = "ADD_TAG_TO_QUESTIONS" ->
            ReduceAddTagToQuestions(s, action.questionIds, action.tagId)
      [] action.type = "REMOVE_TAG_FROM_QUESTIONS" ->
            [s EXCEPT !.questions = [i \in 1..Len(s.questions) |->
                RemoveTag(s.questions[i], action.questionIds, action.tagId)]]
      [] action.type = "UPDATE_EXAM" ->
            [s EXCEPT !.exams = [i \in 1..Len(s.exams) |->
                IF s.exams[i].id = action.examId
                THEN Spread(s.exams[i], action.data)
                ELSE s.exams[i]]]
      [] action.type = "UPDATE_QUESTIONS" ->
            [s EXCEPT !.questions = [i \in 1..Len(s.questions) |->
                IF s.questions[i].id \in action.questionIds
                THEN Spread(s.questions[i], action.data)
                ELSE s.questions[i]]]
      [] action.type = "UPDATE_TAG" ->
            [s EXCEPT !.tags = [i \in 1..Len(s.tags) |->
                IF s.tags[i].id = action.payload.id THEN action.payload ELSE s.tags[i]]]
      [] action.type = "DELETE_TAG" -> ReduceDeleteTag(s, action.tagId)
      [] OTHER -> s

\* ------------------------------------------------------------------ calls in flight

\* A call is [op, pc, arg, keys, hashes, work, deleted, dispatches, skipped, blobs0]:
\*   arg     the call's argument
\*   keys    the image keys read from the state the callback closed over
\*   hashes  handleFiles: the digests in use in the questions it closed over
\*   work    the question objects whose inline images are being stored
\*   deleted whether the call's deleteImages transaction has committed
\*   blobs0  history: the Blob Store when an import or updateQuestion was started
\* pc is "deleting", "storing" or "reading" (an export's getImage calls) while
\* IndexedDB transactions are in flight,
\* "resume" between the commit and the continuation of the await.
Idle ==
    [op |-> "idle", pc |-> "idle", arg |-> <<>>, keys |-> <<>>, hashes |-> {}, work |-> <<>>,
     deleted |-> FALSE, dispatches |-> FALSE, skipped |-> 0, blobs0 |-> <<>>]

Free(p) == procs[p].pc \in {"idle", "done", "failed"}

\* What is left of a call that has ended
Ended(c, how) ==
    [Idle EXCEPT !.op = c.op, !.pc = how, !.arg = c.arg, !.hashes = c.hashes,
                 !.skipped = c.skipped]

Quiescent == \A p \in Procs : Free(p)

AnswerUrls(q) ==
    IF Has(q, "answer") /\ Has(q.answer, "imageUrls") THEN q.answer.imageUrls ELSE <<>>

\* The storeImage calls a call has issued for the object q and not seen
\* complete: 0 is q.imageUrl, j > 0 is q.answer.imageUrls[j].  addQuestions
\* stores q.imageUrl only, updateQuestion the answer images only, and
\* processImportedQuestions the answer images after q.imageUrl.
StoreSlotsMutant(op, q) ==
    IF op # "updateQuestion" /\ Has(q, "imageUrl") /\ IsBase64(q.imageUrl) THEN {0} ELSE {}
StoreSlots(op, q) ==
    LET img == IF op # "updateQuestion" /\ Has(q, "imageUrl") /\ IsBase64(q.imageUrl)
               THEN {0} ELSE {}
        ans == IF op # "handleFiles"
               THEN {j \in 1..Len(AnswerUrls(q)) : IsBase64(AnswerUrls(q)[j])}
               ELSE {}
    IN IF img # {} THEN img ELSE ans

PendingStores(c) == \E i \in 1..Len(c.work) : StoreSlots(c.op, c.work[i]) # {}

KeysToDeleteMutant(c) == c.keys
\* updateQuestion: the old keys that are not among the new ones
KeysToDelete(c) ==
    IF c.op = "updateQuestion"
    THEN SelectSeq(c.keys, LAMBDA k : k \notin Range(AnswerUrls(c.work[1])))
    ELSE c.keys

AwaitsAllStoresMutant(c) == FALSE
AwaitsAllStores(c) == PendingStores(c)

\* What the call does next: where it awaits, or "dispatch" / "return".
Phase(c) ==
    LET del == IF ~c.deleted /\ KeysToDelete(c) # <<>> THEN "deleting" ELSE "none"
        sto == IF AwaitsAllStores(c) THEN "storing" ELSE "none"
        fin == IF c.dispatches THEN "dispatch" ELSE "return"
    IN IF c.op = "updateQuestion"
       THEN (IF sto # "none" THEN sto ELSE IF del # "none" THEN del ELSE fin)
       ELSE (IF del # "none" THEN del ELSE IF sto # "none" THEN sto ELSE fin)

Tags(data) == IF Has(data, "tags") THEN data.tags ELSE <<>>

\* The action the call dispatches; u is the number of uuids handed out.
ActionOf(c, u) ==
    CASE c.op = "handleFiles" ->
            [type |-> "ADD_QUESTIONS",
             payload |-> [i \in 1..Len(c.work) |-> Spread([id |-> u + i], c.work[i])]]
      [] c.op = "deleteExam" -> [type |-> "DELETE_EXAM", examId |-> c.arg]
      [] c.op = "deleteQuestion" -> [type |-> "DELETE_QUESTION", questionId |-> c.arg]
      [] c.op = "deleteQuestions" -> [type |-> "DELETE_QUESTIONS", questionIds |-> c.arg]
      [] c.op = "updateQuestion" ->
            [type |-> "UPDATE_QUESTION", questionId |-> c.arg.id, data |-> c.work[1]]
      [] c.op = "replaceData" ->
            [type |-> "REPLACE_DATA",
             payload |-> [exams |-> c.arg.exams, questions |-> c.work, tags |-> Tags(c.arg)]]
      [] c.op = "mergeData" ->
            [type |-> "MERGE_DATA",
             payload |-> [exams |-> c.arg.exams, questions |-> c.work, tags |-> Tags(c.arg)]]

UuidsOf(c) == IF c.op = "handleFiles" THEN Len(c.work) ELSE 0

\* dispatch(action): the reducer runs on the current state
\* and the render that follows runs the persistence effect
Dispatch(action, c) ==
    /\ state' = AppReducer(state, action)
    /\ localStorage' = PersistenceEffect(isInitialized, state', localStorage)
    /\ last' = [act |-> action, pre |-> state, call |-> c, blobs |-> blobs]

\* The call c of slot p runs on from an await (or from its start) to its
\* next await, or to its end.
Continue(p, c) ==
    LET ph == Phase(c) IN
    IF ph = "dispatch"
    THEN /\ Dispatch(ActionOf(c, uuid), c)
         /\ uuid' = uuid + UuidsOf(c)
         /\ procs' = [procs EXCEPT ![p] = Ended(c, "done")]
         \* handleMerge / handleOverwrite: setImportedData(null) after the await
         /\ importedData' = IF c.op \in {"mergeData", "replaceData"} THEN <<>> ELSE importedData
    ELSE /\ procs' = [procs EXCEPT ![p] =
                IF ph = "return" THEN Ended(c, "done") ELSE [c EXCEPT !.pc = ph]]
         /\ UNCHANGED <<state, last, uuid, importedData, localStorage>>

\* A new call takes the first free slot.
Call(p, c) ==
    /\ Free(p)
    /\ \A r \in Procs : r < p => ~Free(r)
    /\ calls < MaxCalls
    /\ calls' = calls + 1
    /\ Continue(p, c)
    /\ UNCHANGED <<blobs, db, mounted, isInitialized>>

\* ------------------------------------------------------------------ imageStore

\* getDb: the first call opens the database; dbPromise keeps the outcome
DbUsableMutant == TRUE
DbUsable == db # "failed"

\* store.put(base64, key) under a fresh key; resolves `idb://${key}`
StoreImageMutant(b, key, base64) ==
    [k \in DOMAIN b \cup {key} |-> IF k = key THEN DataUri(0) ELSE b[k]]
StoreImage(b, key, base64) ==
    [k \in DOMAIN b \cup {key} |-> IF k = key THEN base64 ELSE b[k]]

\* key.replace('idb://', '')
ActualKey(url) == url[2]

\* keys.forEach(key => store.delete(actualKey))
DeleteImagesMutant(b, keys) == b
DeleteImages(b, keys) ==
    [k \in DOMAIN b \ {ActualKey(keys[i]) : i \in 1..Len(keys)} |-> b[k]]

\* what store.get resolves when the key has no entry
Undefined == <<"undefined", 0>>

\* getImage(key): the payload, or undefined
GetImage(b, url) == IF ActualKey(url) \in DOMAIN b THEN b[ActualKey(url)] ELSE Undefined

SetSlot(q, slot, url) ==
    IF slot = 0 THEN [q EXCEPT !.imageUrl = url]
    ELSE [q EXCEPT !.answer.imageUrls[slot] = url]

SlotUrl(q, slot) == IF slot = 0 THEN q.imageUrl ELSE q.answer.imageUrls[slot]

\* One storeImage transaction of the call in slot p commits.
StoreImageCommit(p) ==
    /\ procs[p].pc = "storing"
    /\ DbUsable
    /\ \E i \in 1..Len(procs[p].work) :
         \E slot \in StoreSlots(procs[p].op, procs[p].work[i]) :
            LET c == procs[p]
                key == uuid + 1
                c2 == [c EXCEPT !.work[i] = SetSlot(c.work[i], slot, IdbUrl(key))]
            IN /\ blobs' = StoreImage(blobs, key, SlotUrl(c.work[i], slot))
               /\ uuid' = key
               /\ procs' = [procs EXCEPT ![p] =
                    [c2 EXCEPT !.pc = IF PendingStores(c2) THEN "storing" ELSE "resume"]]
    /\ db' = "open"
    /\ UNCHANGED <<state, calls, last, importedData, localStorage, mounted, isInitialized>>

\* The deleteImages transaction of the call in slot p commits.
DeleteImagesCommit(p) ==
    /\ procs[p].pc = "deleting"
    /\ DbUsable
    /\ blobs' = DeleteImages(blobs, KeysToDelete(procs[p]))
    /\ procs' = [procs EXCEPT ![p] = [@ EXCEPT !.deleted = TRUE, !.pc = "resume"]]
    /\ db' = "open"
    /\ UNCHANGED <<state, uuid, calls, last, importedData, localStorage, mounted, isInitialized>>

BlobFailMutant(p) ==
    /\ procs[p].pc \in {"storing", "deleting", "reading"}
    /\ db' \in (IF db = "unopened" THEN {"open", "failed"} ELSE {db})
    /\ procs' = [procs EXCEPT ![p] = Ended(@, "failed")]
    /\ IF procs[p].pc = "deleting" /\ procs[p].dispatches
       THEN Dispatch(ActionOf(procs[p], uuid), procs[p])
       ELSE UNCHANGED <<state, last, localStorage>>
    /\ UNCHANGED <<blobs, uuid, calls, importedData, mounted, isInitialized>>

\* A transaction of the call fails, or the database cannot be opened: the
\* awaited promise rejects and the call ends without dispatching.
BlobFail(p) ==
    /\ procs[p].pc \in {"storing", "deleting", "reading"}
    /\ procs' = [procs EXCEPT ![p] = Ended(@, "failed")]
    /\ db' \in (IF db = "unopened" THEN {"open", "failed"} ELSE {db})
    /\ UNCHANGED <<state, blobs, uuid, calls, last, importedData, localStorage, mounted,
                   isInitialized>>

\* transaction.oncomplete: the awaiting call continues.
Resume(p) ==
    /\ procs[p].pc = "resume"
    /\ Continue(p, procs[p])
    /\ UNCHANGED <<blobs, db, calls, mounted, isInitialized>>

\* ------------------------------------------------------------------ DataProvider

SyncCall(name) == [Idle EXCEPT !.op = name, !.pc = "done"]

Sync(action, name) ==
    /\ calls < MaxCalls
    /\ calls' = calls + 1
    /\ Dispatch(action, SyncCall(name))
    /\ UNCHANGED <<blobs, db, procs, importedData, mounted, isInitialized>>

\* A synchronous callback that returns without dispatching
Return ==
    /\ calls < MaxCalls
    /\ calls' = calls + 1
    /\ UNCHANGED <<state, blobs, db, procs, last, importedData, localStorage, mounted,
                   isInitialized>>

AddExam ==
    /\ Sync([type |-> "ADD_EXAM", payload |-> [id |-> uuid + 1, name |-> "A"]], "addExam")
    /\ uuid' = uuid + 1

\* addTag(tagData): the tag manager of an exam, or the global one
AddTagCall ==
    \E scope \in {<<>>} \cup {[examId |-> e] : e \in Ids(state.exams)} :
        /\ Sync([type |-> "ADD_TAG",
                 payload |-> Spread([id |-> uuid + 1],
                                    Spread([name |-> "A", color |-> "#000"], scope))],
                "addTag")
        /\ uuid' = uuid + 1

AddTagToQuestions ==
    \E ids \in SUBSET (Ids(state.questions) \cup UnknownIds),
       tagId \in Ids(state.tags) \cup UnknownIds :
        /\ ids # {}
        /\ Sync([type |-> "ADD_TAG_TO_QUESTIONS", questionIds |-> ids, tagId |-> tagId],
                "addTagToQuestions")
        /\ UNCHANGED uuid

RemoveTagFromQuestions ==
    \E ids \in SUBSET (Ids(state.questions) \cup UnknownIds),
       tagId \in Ids(state.tags) \cup UnknownIds :
        /\ ids # {}
        /\ Sync([type |-> "REMOVE_TAG_FROM_QUESTIONS", questionIds |-> ids, tagId |-> tagId],
                "removeTagFromQuestions")
        /\ UNCHANGED uuid

DeleteTag ==
    \E tagId \in Ids(state.tags) \cup UnknownIds :
        /\ Sync([type |-> "DELETE_TAG", tagId |-> tagId], "deleteTag")
        /\ UNCHANGED uuid

\* the exam form submits { name, subject, examDate }
UpdateExam ==
    \E examId \in Ids(state.exams) \cup UnknownIds :
        /\ Sync([type |-> "UPDATE_EXAM", examId |-> examId,
                 data |-> [name |-> "B", subject |-> "S"]], "updateExam")
        /\ UNCHANGED uuid

\* the bulk action of the detail screen
UpdateQuestions ==
    \E ids \in SUBSET (Ids(state.questions) \cup UnknownIds) :
        /\ ids # {}
        /\ Sync([type |-> "UPDATE_QUESTIONS", questionIds |-> ids,
                 data |-> [difficulty |-> "hard", status |-> "seen"]], "updateQuestions")
        /\ UNCHANGED uuid

DeleteExam(p) ==
    \E examId \in Ids(state.exams) \cup UnknownIds :
        Call(p, [Idle EXCEPT !.op = "deleteExam", !.arg = examId, !.dispatches = TRUE,
                 !.keys = ImageKeysOf(SelectSeq(state.questions, LAMBDA q : q.examId = examId))])

\* questions.find(q => q.id === id), as an array of at most one element
Find(qs, id) ==
    IF HasId(qs, id)
    THEN <<qs[CHOOSE i \in 1..Len(qs) : qs[i].id = id /\ \A j \in 1..(i - 1) : qs[j].id # id]>>
    ELSE <<>>

\* updateTag(tagId, { name, color }) of the tag manager
UpdateTag ==
    \E tagId \in Ids(state.tags) \cup UnknownIds :
        LET tagToUpdate == Find(state.tags, tagId) IN
        /\ IF tagToUpdate = <<>>
           THEN Return
           ELSE Sync([type |-> "UPDATE_TAG",
                      payload |-> Spread(tagToUpdate[1], [name |-> "B", color |-> "#fff"])],
                     "updateTag")
        /\ UNCHANGED uuid

DeleteQuestion(p) ==
    \E questionId \in Ids(state.questions) \cup UnknownIds :
        Call(p, [Idle EXCEPT !.op = "deleteQuestion", !.arg = questionId,
                 !.dispatches = Find(state.questions, questionId) # <<>>,
                 !.keys = ImageKeysOf(Find(state.questions, questionId))])

DeleteQuestions(p) ==
    \E questionIds \in SUBSET (Ids(state.questions) \cup UnknownIds) :
        /\ questionIds # {}
        /\ Call(p, [Idle EXCEPT !.op = "deleteQuestions", !.arg = questionIds,
                    !.dispatches = TRUE,
                    !.keys = ImageKeysOf(SelectSeq(state.questions,
                                                   LAMBDA q : q.id \in questionIds))])

\* The answer modal saves: the kept keys of the question, with or without a
\* new inline image, after them or before them.
AnswerImageLists(q) ==
    LET old == AnswerUrls(q) IN
    {<<>>, <<DataUri(7)>>, old, Append(old, DataUri(7)), <<DataUri(7)>> \o old}

UpdateQuestion(p) ==
    \E questionId \in Ids(state.questions) \cup UnknownIds :
        LET found == Find(state.questions, questionId) IN
        IF found = <<>>
        THEN Call(p, [Idle EXCEPT !.op = "updateQuestion", !.arg = [id |-> questionId]])
        ELSE \E urls \in AnswerImageLists(found[1]) :
            LET data == [answer |-> [imageUrls |-> urls], status |-> "seen"] IN
            Call(p, [Idle EXCEPT !.op = "updateQuestion",
                     !.arg = [id |-> questionId, data |-> data],
                     !.dispatches = TRUE,
                     !.keys = SelectSeq(AnswerUrls(found[1]), IsImageKey),
                     !.work = <<data>>,
                     !.blobs0 = blobs])

\* calculateHash: the hex SHA-256 digest of the file's bytes
CalculateHash(bytes) == <<"sha256", bytes>>

\* fileToBase64: the data URI of the file's bytes
FileToBase64(bytes) == DataUri(bytes)

NotesInUseMutant(qs) == {}
NotesInUse(qs) ==
    {qs[i].notes : i \in {j \in 1..Len(qs) : qs[j].type = "image" /\ Has(qs[j], "notes")}}

\* handleFiles' loop over the files: [added, skipped]
RECURSIVE ScanFiles(_, _, _, _, _)
ScanFiles(examId, files, hashes, added, skipped) ==
    IF files = <<>> THEN [added |-> added, skipped |-> skipped]
    ELSE LET hash == CalculateHash(Head(files)) IN
         IF hash \in hashes
         THEN ScanFiles(examId, Tail(files), hashes, added, skipped + 1)
         ELSE ScanFiles(examId, Tail(files), hashes \cup {hash},
                        Append(added, [examId |-> examId, type |-> "image",
                                       imageUrl |-> FileToBase64(Head(files)),
                                       tags |-> <<>>, status |-> "new", notes |-> hash]),
                        skipped)

FileLists == {<<7>>, <<8>>, <<7, 7>>, <<7, 8>>}

\* handleFiles(files) of the detail screen of examId, and the addQuestions it calls
HandleFiles(p) ==
    \E examId \in Ids(state.exams), files \in FileLists :
        LET questions == SelectSeq(state.questions, LAMBDA q : q.examId = examId)
            scan == ScanFiles(examId, files, NotesInUse(questions), <<>>, 0)
        IN Call(p, [Idle EXCEPT !.op = "handleFiles", !.arg = [examId |-> examId, files |-> files],
                    !.hashes = NotesInUse(questions),
                    !.work = scan.added, !.skipped = scan.skipped,
                    !.dispatches = scan.added # <<>>])

\* ------------------------------------------------------------------ import

\* The ids a document can carry: the id of the first local record (a backup
\* of this store) and an id made elsewhere.
SnapIds(coll) == (IF coll = <<>> THEN {} ELSE {coll[1].id}) \cup ForeignIds

SnapExams == {[id |-> i, name |-> "A2"] : i \in SnapIds(state.exams)}

SnapTags ==
    {[id |-> i, name |-> "A2"] : i \in SnapIds(state.tags)}
    \cup {[id |-> i, name |-> "A2", color |-> "#fff", examId |-> e] :
            i \in ForeignIds, e \in ForeignIds}

SnapQuestions ==
    {[id |-> i, examId |-> e, type |-> "image", tags |-> <<>>, status |-> "new",
      imageUrl |-> DataUri(7), answer |-> [imageUrls |-> <<DataUri(8)>>]] :
        i \in SnapIds(state.questions), e \in ForeignIds}
    \cup {[id |-> i, examId |-> e, type |-> "text", tags |-> <<>>, status |-> "new"] :
            i \in ForeignIds, e \in ForeignIds}

\* The arrays of a document: up to two records, of different ids
Lists(recs) ==
    {<<>>} \cup {<<r>> : r \in recs}
    \cup {rr \in recs \X recs : rr[1].id # rr[2].id}

\* The documents handed to mergeData / replaceData: what handleExport of
\* this or of another store writes (ids occur once, images are inline), with
\* fields that an older version did not write left out.  handleFileImport
\* has checked that exams and questions are arrays and defaulted tags to [].
Snapshots ==
    {[exams |-> e, questions |-> <<>>, tags |-> <<>>] : e \in Lists(SnapExams)}
    \cup {[exams |-> <<>>, questions |-> q, tags |-> <<>>] : q \in Lists(SnapQuestions)}
    \cup {[exams |-> <<>>, questions |-> <<>>, tags |-> t] : t \in Lists(SnapTags)}
    \cup {[exams |-> <<e>>, questions |-> <<q>>, tags |-> <<t>>] :
            e \in {x \in SnapExams : x.id \in ForeignIds},
            q \in {x \in SnapQuestions : x.id \in ForeignIds},
            t \in {x \in SnapTags : x.id \in ForeignIds /\ Has(x, "color")}}

ReplaceDataCall(data) ==
    [Idle EXCEPT !.op = "replaceData", !.arg = data, !.dispatches = TRUE,
                 !.keys = ImageKeysOf(state.questions), !.work = data.questions]

MergeDataCall(data) ==
    [Idle EXCEPT !.op = "mergeData", !.arg = data, !.dispatches = TRUE,
                 !.work = data.questions]

ReplaceData(p) ==
    \E data \in Snapshots :
        /\ calls < MaxImports
        /\ Call(p, ReplaceDataCall(data))

MergeData(p) ==
    \E data \in Snapshots :
        /\ calls < MaxImports
        /\ Call(p, MergeDataCall(data))

\* ------------------------------------------------------------------ export and the import dialog

\* JSON.stringify writes null for an undefined array element
JsonNull == <<"null", 0>>

\* handleExport's copy of a question: every reference is replaced by what
\* getImage resolves; JSON.stringify then drops a property that is undefined.
ExportQuestionMutant(q, b) == q
ExportQuestionShallow(q, b) ==
    IF Has(q, "imageUrl") /\ IsImageKey(q.imageUrl) /\ GetImage(b, q.imageUrl) # Undefined
    THEN [q EXCEPT !.imageUrl = GetImage(b, q.imageUrl)] ELSE q
ExportQuestion(q, b) ==
    LET q1 == IF Has(q, "imageUrl") /\ IsImageKey(q.imageUrl)
              THEN IF GetImage(b, q.imageUrl) = Undefined
                   THEN Omit(q, "imageUrl")
                   ELSE [q EXCEPT !.imageUrl = GetImage(b, q.imageUrl)]
              ELSE q
    IN IF Has(q1, "answer") /\ Has(q1.answer, "imageUrls")
       THEN [q1 EXCEPT !.answer.imageUrls = [j \in 1..Len(@) |->
                IF IsImageKey(@[j])
                THEN IF GetImage(b, @[j]) = Undefined THEN JsonNull ELSE GetImage(b, @[j])
                ELSE @[j]]]
       ELSE q1

\* the document handleExport downloads, as JSON.parse reads it back
HandleExport(s, b) ==
    [version |-> "1.3.0",
     data |-> [exams |-> s.exams,
               questions |-> [i \in 1..Len(s.questions) |-> ExportQuestion(s.questions[i], b)],
               tags |-> s.tags]]

\* exportExamAsJson(exam, questions, tags): the same copy of the questions
ExportExamAsJson(exam, questions, tags, b) ==
    [version |-> "2.0.0",
     exam |-> exam,
     questions |-> [i \in 1..Len(questions) |-> ExportQuestion(questions[i], b)],
     tags |-> tags]

\* the document an export writes from the data it was started with
ExportDocument(op, data, b) ==
    IF op = "handleExport" THEN HandleExport(data, b)
    ELSE ExportExamAsJson(data.exam, data.questions, data.tags, b)

\* An export starts: it holds the data of the render it was started from and
\* awaits getImage for every key; without keys the document is written at
\* once.  The slot keeps the document.
StartExport(p, op, data) ==
    /\ Free(p)
    /\ \A r \in Procs : r < p => ~Free(r)
    /\ calls < MaxCalls
    /\ calls' = calls + 1
    /\ procs' = [procs EXCEPT ![p] =
            IF ImageKeysOf(data.questions) = <<>>
            THEN [Idle EXCEPT !.op = op, !.pc = "done", !.arg = ExportDocument(op, data, blobs)]
            ELSE [Idle EXCEPT !.op = op, !.pc = "reading", !.arg = data]]
    /\ UNCHANGED <<state, blobs, uuid, db, last, importedData, localStorage, mounted,
                   isInitialized>>

\* the Export button of the home screen
HandleExportCall(p) == StartExport(p, "handleExport", state)

\* the JSON export of an exam's detail screen, with all its questions
ExportExam(p) ==
    \E i \in 1..Len(state.exams) :
        LET examId == state.exams[i].id
            questionsToExport == SelectSeq(state.questions, LAMBDA q : q.examId = examId)
        IN /\ questionsToExport # <<>>
           /\ StartExport(p, "exportExamAsJson",
                          [exam |-> state.exams[i], questions |-> questionsToExport,
                           tags |-> SelectSeq(state.tags,
                                              LAMBDA t : Has(t, "examId") /\ t.examId = examId)])

\* The getImage transactions of the export in slot p complete and the
\* document is written.
GetImagesCommit(p) ==
    /\ procs[p].pc = "reading"
    /\ DbUsable
    /\ procs' = [procs EXCEPT ![p] =
            [Idle EXCEPT !.op = procs[p].op, !.pc = "done",
                         !.arg = ExportDocument(procs[p].op, procs[p].arg, blobs)]]
    /\ db' = "open"
    /\ UNCHANGED <<state, blobs, uuid, calls, last, importedData, localStorage, mounted,
                   isInitialized>>

\* The files a user can pick: the backup this store has just exported, a
\* backup of another store, one written before tags existed, and files that
\* lack `data`, `data.exams` or `data.questions`.
Files ==
    LET e == [id |-> 100, name |-> "A2"]
        q == [id |-> 100, examId |-> 100, type |-> "image", tags |-> <<>>, status |-> "new",
              imageUrl |-> DataUri(7)]
        t == [id |-> 100, name |-> "A2", color |-> "#fff", examId |-> 100]
    IN {HandleExport(state, blobs),
        [version |-> "1.3.0", data |-> [exams |-> <<e>>, questions |-> <<q>>, tags |-> <<t>>]],
        [version |-> "1.0.0", data |-> [exams |-> <<e>>, questions |-> <<q>>]],
        [version |-> "1.3.0", data |-> [questions |-> <<q>>, tags |-> <<t>>]],
        [version |-> "1.3.0", data |-> [exams |-> <<e>>, tags |-> <<t>>]],
        [version |-> "1.3.0"]}

\* !appState || !Array.isArray(appState.exams) || !Array.isArray(appState.questions)
IsBackupMutant(parsedJson) == FALSE
IsBackup(parsedJson) ==
    /\ Has(parsedJson, "data")
    /\ Has(parsedJson.data, "exams")
    /\ Has(parsedJson.data, "questions")

ValidatedAppState(appState) ==
    [exams |-> appState.exams,
     questions |-> appState.questions,
     tags |-> IF Has(appState, "tags") THEN appState.tags ELSE <<>>]

\* reader.onload of handleFileImport: the dialog opens, or the error is alerted.
\* The slot keeps the file and whether it was refused.
HandleFileImport(p) ==
    \E parsedJson \in Files :
        /\ importedData = <<>>
        /\ Free(p)
        /\ \A r \in Procs : r < p => ~Free(r)
        /\ calls < MaxCalls
        /\ calls' = calls + 1
        /\ procs' = [procs EXCEPT ![p] =
                [Idle EXCEPT !.op = "handleFileImport", !.arg = parsedJson,
                             !.pc = IF IsBackup(parsedJson) THEN "done" ELSE "failed"]]
        /\ importedData' = IF IsBackup(parsedJson)
                           THEN ValidatedAppState(parsedJson.data)
                           ELSE importedData
        /\ UNCHANGED <<state, blobs, uuid, db, last, localStorage, mounted, isInitialized>>

\* the dialog's Cancel: setImportedData(null)
CloseImport ==
    /\ importedData # <<>>
    /\ importedData' = <<>>
    /\ UNCHANGED <<state, blobs, uuid, db, procs, calls, last, localStorage, mounted,
                   isInitialized>>

HandleMerge(p) ==
    /\ importedData # <<>>
    /\ Call(p, [MergeDataCall(importedData) EXCEPT !.blobs0 = blobs])

HandleOverwrite(p) ==
    /\ importedData # <<>>
    /\ Call(p, [ReplaceDataCall(importedData) EXCEPT !.blobs0 = blobs])

\* ------------------------------------------------------------------ specifications

\* A store left by an earlier session: two exams, each with a tag and a
\* question; the images live in IndexedDB, the records in localStorage.
PersistedState ==
    [exams |-> <<[id |-> 1, name |-> "A"], [id |-> 2, name |-> "A"]>>,
     questions |->
        <<[id |-> 5, examId |-> 1, type |-> "image", imageUrl |-> IdbUrl(6), tags |-> <<3>>,
           status |-> "seen", notes |-> CalculateHash(7),
           answer |-> [imageUrls |-> <<IdbUrl(7)>>]],
          [id |-> 8, examId |-> 2, type |-> "image", imageUrl |-> IdbUrl(9), tags |-> <<>>,
           status |-> "new", notes |-> CalculateHash(7)]>>,
     tags |-> <<[id |-> 3, name |-> "A", color |-> "#000", examId |-> 1],
                [id |-> 4, name |-> "A", color |-> "#000", examId |-> 2]>>]

PersistedBlobs == (6 :> DataUri(7)) @@ (7 :> DataUri(8)) @@ (9 :> DataUri(7))

\* initializer(): the state is read back from localStorage, empty on a first run
Init ==
    /\ \/ state = EmptyState /\ blobs = <<>> /\ uuid = 0
       \/ state = PersistedState /\ blobs = PersistedBlobs /\ uuid = 9
    /\ db = "unopened"
    /\ procs = [p \in Procs |-> Idle]
    /\ calls = 0
    /\ importedData = <<>>
    /\ last = [act |-> [type |-> "INIT"], pre |-> state, call |-> Idle, blobs |-> blobs]
    /\ localStorage = SetItems(state)
    /\ mounted = TRUE
    /\ isInitialized = TRUE

Transactions ==
    \E p \in Procs : StoreImageCommit(p) \/ DeleteImagesCommit(p) \/ BlobFail(p) \/ Resume(p)

\* Exams, uploads and the cascade of deleteExam
Next ==
    \/ AddExam
    \/ AddTagCall
    \/ \E p \in Procs : HandleFiles(p)
    \/ \E p \in Procs : DeleteExam(p)
    \/ Transactions

Spec == Init /\ [][Next]_vars

\* QuestionCard's tag popover on the exam's screen: it offers the tags of the
\* question's exam and calls updateQuestion with the toggled tag list.
HandleTagChange(p) ==
    \E i \in 1..Len(state.questions), j \in 1..Len(state.tags) :
        LET question == state.questions[i]
            tagId == state.tags[j].id
            newTags == IF tagId \in Range(question.tags)
                       THEN SelectSeq(question.tags, LAMBDA id : id # tagId)
                       ELSE Append(question.tags, tagId)
        IN /\ Has(state.tags[j], "examId")
           /\ state.tags[j].examId = question.examId
           /\ Call(p, [Idle EXCEPT !.op = "updateQuestion",
                       !.arg = [id |-> question.id, data |-> [tags |-> newTags]],
                       !.dispatches = TRUE, !.work = <<[tags |-> newTags]>>])

\* Answers and the deletion of questions, one call at a time
NextQuestions ==
    \/ \E p \in Procs : Quiescent /\ HandleFiles(p)
    \/ \E p \in Procs : Quiescent /\ UpdateQuestion(p)
    \/ \E p \in Procs : Quiescent /\ DeleteQuestion(p)
    \/ \E p \in Procs : Quiescent /\ DeleteQuestions(p)
    \/ Transactions

SpecQuestions == Init /\ [][NextQuestions]_vars

\* Import by merge and by replace, one document at a time
NextImport ==
    \/ AddExam
    \/ \E p \in Procs : Quiescent /\ MergeData(p)
    \/ \E p \in Procs : Quiescent /\ ReplaceData(p)
    \/ Transactions

SpecImport == Init /\ [][NextImport]_vars

\* Tagging, with uploads and deletions one call at a time
NextTags ==
    \/ AddTagCall
    \/ AddTagToQuestions
    \/ \E p \in Procs : Quiescent /\ HandleFiles(p)
    \/ \E p \in Procs : Quiescent /\ DeleteQuestion(p)
    \/ Transactions

SpecTags == Init /\ [][NextTags]_vars

\* Uploads and deletions that do not overlap
NextUpload ==
    \/ AddExam
    \/ \E p \in Procs : Quiescent /\ HandleFiles(p)
    \/ \E p \in Procs : Quiescent /\ DeleteQuestion(p)
    \/ Transactions

SpecUpload == Init /\ [][NextUpload]_vars

\* Export, the import dialog and its two buttons, one call at a time
NextFile ==
    \/ \E p \in Procs : Quiescent /\ HandleFiles(p)
    \/ \E p \in Procs : Quiescent /\ HandleFileImport(p)
    \/ CloseImport
    \/ \E p \in Procs : Quiescent /\ HandleMerge(p)
    \/ \E p \in Procs : Quiescent /\ HandleOverwrite(p)
    \/ Transactions

SpecFile == Init /\ [][NextFile]_vars

\* ------------------------------------------------------------------ startup

\* what localStorage can hold when the page loads: nothing, what the
\* persistence effect wrote, that without the 'tags' key (written before tags
\* existed), and that with a text that does not parse under one key or all
StoredContents ==
    LET written == SetItems(PersistedState) IN
    {<<>>, written, Omit(written, "tags"),
     [written EXCEPT !.questions_meta = Unparseable],
     [written EXCEPT !.tags = Unparseable],
     [exams |-> Unparseable]}

\* the page loads: useReducer runs initializer(), no effect has run yet
InitStartup ==
    /\ localStorage \in StoredContents
    /\ state = Initializer(localStorage)
    /\ blobs = IF localStorage = <<>> THEN <<>> ELSE PersistedBlobs
    /\ uuid = 9
    /\ db = "unopened"
    /\ procs = [p \in Procs |-> Idle]
    /\ calls = 0
    /\ importedData = <<>>
    /\ last = [act |-> [type |-> "INIT"], pre |-> state, call |-> Idle, blobs |-> blobs]
    /\ mounted = FALSE
    /\ isInitialized = FALSE

\* The effects of the first render: setIsInitialized(true) is queued, and the
\* persistence effect runs with the isInitialized that render saw.
Mount ==
    /\ ~mounted
    /\ mounted' = TRUE
    /\ localStorage' = PersistenceEffect(isInitialized, state, localStorage)
    /\ UNCHANGED <<state, blobs, uuid, db, procs, calls, last, importedData, isInitialized>>

\* The render that setIsInitialized(true) causes, and its persistence effect.
Initialize ==
    /\ mounted
    /\ ~isInitialized
    /\ isInitialized' = TRUE
    /\ localStorage' = PersistenceEffect(TRUE, state, localStorage)
    /\ UNCHANGED <<state, blobs, uuid, db, procs, calls, last, importedData, mounted>>

\* The page is loaded again: the calls in flight are gone with the page,
\* IndexedDB and localStorage stay.
Reload ==
    /\ calls < MaxCalls
    /\ calls' = calls + 1
    /\ state' = Initializer(localStorage)
    /\ last' = [act |-> [type |-> "INIT"], pre |-> Initializer(localStorage), call |-> Idle,
                blobs |-> blobs]
    /\ procs' = [p \in Procs |-> Idle]
    /\ db' = "unopened"
    /\ importedData' = <<>>
    /\ mounted' = FALSE
    /\ isInitialized' = FALSE
    /\ UNCHANGED <<blobs, uuid, localStorage>>

\* an image that a document names by a link: neither a key nor a data:image URI
LinkUrl(b) == <<"https", b>>

\* Documents of another tool, whose images are links.
LinkedSnapshots ==
    {[exams |-> <<[id |-> 100, name |-> "A2"]>>,
      questions |-> <<[id |-> 100, examId |-> 100, type |-> "image", tags |-> <<>>,
                       status |-> "new", imageUrl |-> LinkUrl(7),
                       answer |-> [text |-> "T", imageUrls |-> urls]]>>,
      tags |-> <<>>] : urls \in {<<LinkUrl(8)>>, <<DataUri(8), LinkUrl(8)>>}}

\* handleOverwrite with such a document
ReplaceLinked(p) == \E data \in LinkedSnapshots : Call(p, ReplaceDataCall(data))

\* Startup, uploads and imports, and loading the page again
Ready == mounted /\ isInitialized /\ Quiescent

NextStartup ==
    \/ Mount
    \/ Initialize
    \/ Reload
    \/ \E p \in Procs : Ready /\ HandleFiles(p)
    \/ \E p \in Procs : Ready /\ ReplaceLinked(p)
    \/ Transactions

SpecStartup == InitStartup /\ [][NextStartup]_vars

\* React runs the effects of a render that has been committed: the mount
\* effect, and the effects of the render that setIsInitialized causes
SpecStartupFair == SpecStartup /\ WF_mounted(Mount) /\ WF_isInitialized(Initialize)

\* The Blob Store's users one at a time: uploads, deletions, an import by
\* replace, and the two exports
NextBlobs ==
    \/ \E p \in Procs : Quiescent /\ HandleFiles(p)
    \/ \E p \in Procs : Quiescent /\ DeleteQuestion(p)
    \/ \E p \in Procs : Quiescent /\ DeleteQuestions(p)
    \/ \E p \in Procs : Quiescent /\ DeleteExam(p)
    \/ \E p \in Procs : Quiescent /\ ReplaceData(p)
    \/ \E p \in Procs : Quiescent /\ HandleExportCall(p)
    \/ \E p \in Procs : Quiescent /\ ExportExam(p)
    \/ \E p \in Procs : GetImagesCommit(p)
    \/ Transactions

SpecBlobs == Init /\ [][NextBlobs]_vars

\* The calls that touch the tags of questions: addTag, addTagToQuestions,
\* updateQuestion (from the answer editor and from the tag popover) and
\* deleteTag.
NextScope ==
    \/ AddTagCall
    \/ AddTagToQuestions
    \/ DeleteTag
    \/ \E p \in Procs : Quiescent /\ UpdateQuestion(p)
    \/ \E p \in Procs : Quiescent /\ HandleTagChange(p)
    \/ Transactions

SpecScope == Init /\ [][NextScope]_vars


\* The tag manager and the bulk tag actions of the detail screen
NextRetag ==
    \/ AddTagCall
    \/ DeleteTag
    \/ AddTagToQuestions
    \/ RemoveTagFromQuestions

SpecRetag == Init /\ [][NextRetag]_vars

\* Every callback of the DataProvider, one call at a time, each run to its
\* end before the next, at most MaxEdits calls.
Serial == Quiescent /\ calls < MaxEdits

NextRecords ==
    \/ Serial /\ AddExam
    \/ Serial /\ UpdateExam
    \/ Serial /\ AddTagCall
    \/ Serial /\ UpdateTag
    \/ Serial /\ DeleteTag
    \/ Serial /\ AddTagToQuestions
    \/ Serial /\ RemoveTagFromQuestions
    \/ Serial /\ UpdateQuestions
    \/ \E p \in Procs : Serial /\ HandleFiles(p)
    \/ \E p \in Procs : Serial /\ UpdateQuestion(p)
    \/ \E p \in Procs : Serial /\ DeleteQuestion(p)
    \/ \E p \in Procs : Serial /\ DeleteQuestions(p)
    \/ \E p \in Procs : Serial /\ DeleteExam(p)
    \/ \E p \in Procs : Serial /\ MergeData(p)
    \/ \E p \in Procs : Serial /\ ReplaceData(p)
    \/ Transactions

SpecRecords == Init /\ [][NextRecords]_vars

\* ------------------------------------------------------------------ claims

Collections == {"exams", "questions", "tags"}

\* the Blob Store keys the questions qs refer to
KeySet(qs) == {ActualKey(ImageKeysOf(qs)[i]) : i \in 1..Len(ImageKeysOf(qs))}

QuestionsOf(s, examId) == SelectSeq(s.questions, LAMBDA q : q.examId = examId)

Dispatched(types) == last.act.type \in types

Count(s) == Cardinality({i \in 1..Len(s) : s[i]})

\* C1: in every state, every idb:// reference held by a question of the
\* Record Store has a live entry in the Blob Store.
C1_ReferencesAreLive == KeySet(state.questions) \subseteq DOMAIN blobs

\* the image slots of a question object: 0 is imageUrl, j is answer.imageUrls[j]
SlotsOf(q) == (IF Has(q, "imageUrl") THEN {0} ELSE {}) \cup (1..Len(AnswerUrls(q)))

\* C2: when REPLACE_DATA / MERGE_DATA is dispatched, every inline image of the
\* imported questions has been stored: at each position that held an inline
\* payload the dispatched question holds a reference whose Blob Store entry,
\* at the time of the dispatch, is that payload.
C2_CommitAfterStores ==
    Dispatched({"REPLACE_DATA", "MERGE_DATA"}) =>
        LET orig == last.call.arg.questions
            new == last.act.payload.questions
        IN /\ Len(new) = Len(orig)
           /\ \A i \in 1..Len(orig) : \A slot \in SlotsOf(orig[i]) :
                IsBase64(SlotUrl(orig[i], slot)) =>
                    /\ IsImageKey(SlotUrl(new[i], slot))
                    /\ ActualKey(SlotUrl(new[i], slot)) \in DOMAIN last.blobs
                    /\ last.blobs[ActualKey(SlotUrl(new[i], slot))] = SlotUrl(orig[i], slot)

C2_Witness ==
    /\ Dispatched({"MERGE_DATA"})
    /\ \E i \in 1..Len(last.call.arg.questions) :
        LET q == last.call.arg.questions[i] IN
        /\ Has(q, "imageUrl") /\ IsBase64(q.imageUrl)
        /\ AnswerUrls(q) # <<>> /\ IsBase64(AnswerUrls(q)[1])
    /\ KeySet(state.questions) \cap DOMAIN blobs # {}

C4_ShallowMerge ==
    Dispatched({"MERGE_DATA"}) =>
        \A f \in Collections : \A inc \in Range(last.act.payload[f]) :
            /\ Count([i \in 1..Len(state[f]) |-> state[f][i].id = inc.id]) = 1
            /\ \A r \in {x \in Range(state[f]) : x.id = inc.id} :
                /\ \A g \in DOMAIN inc : r[g] = inc[g]
                /\ \A loc \in {x \in Range(last.pre[f]) : x.id = inc.id} :
                    /\ DOMAIN r = DOMAIN loc \cup DOMAIN inc
                    /\ \A g \in DOMAIN loc \ DOMAIN inc : r[g] = loc[g]
                /\ (inc.id \notin Ids(last.pre[f])) => r = inc

C4_Witness ==
    /\ Dispatched({"MERGE_DATA"})
    /\ \E loc \in Range(last.pre.tags), inc \in Range(last.act.payload.tags),
          r \in Range(state.tags) :
        /\ loc.id = inc.id /\ r.id = inc.id
        /\ loc.name = "A" /\ loc.color = "#000"
        /\ ~Has(inc, "color") /\ inc.name = "A2"
        /\ r.name = "A2" /\ r.color = "#000"
    /\ \E inc \in Range(last.act.payload.tags) : inc.id \notin Ids(last.pre.tags)

\* C5: after replaceData(snapshot), each collection holds exactly the ids of
\* the snapshot, one record per snapshot record.
C5_ReplaceIsTotal ==
    Dispatched({"REPLACE_DATA"}) =>
        \A f \in Collections :
            /\ Ids(state[f]) = Ids(last.call.arg[f])
            /\ Len(state[f]) = Len(last.call.arg[f])

C5_Witness ==
    /\ Dispatched({"REPLACE_DATA"})
    /\ \A f \in Collections : Ids(last.pre[f]) \ Ids(last.call.arg[f]) # {}
    /\ last.call.arg.exams # <<>>
    /\ last.call.arg.questions # <<>>

BelongsTo(r, examId) == Has(r, "examId") /\ r.examId = examId

\* C6: DELETE_EXAM of E leaves no exam E, no question and no tag of E, and
\* keeps every other exam, question and tag as it was.
C6_DeleteExamCascade ==
    Dispatched({"DELETE_EXAM"}) =>
        LET examId == last.act.examId
            pre == last.pre
        IN /\ examId \notin Ids(state.exams)
           /\ \A f \in {"questions", "tags"} : \A r \in Range(state[f]) : ~BelongsTo(r, examId)
           /\ \A e \in Range(pre.exams) : e.id # examId => e \in Range(state.exams)
           /\ Len(state.exams) = Count([i \in 1..Len(pre.exams) |-> pre.exams[i].id # examId])
           /\ \A f \in {"questions", "tags"} :
                /\ \A r \in Range(pre[f]) : ~BelongsTo(r, examId) => r \in Range(state[f])
                /\ Len(state[f]) = Count([i \in 1..Len(pre[f]) |-> ~BelongsTo(pre[f][i], examId)])

C6_Witness ==
    /\ Dispatched({"DELETE_EXAM"})
    /\ \A f \in {"questions", "tags"} :
        /\ \E r \in Range(last.pre[f]) : BelongsTo(r, last.act.examId)
        /\ state[f] # <<>>
    /\ state.exams # <<>>

\* C7: when deleteExam(E) has completed, the Blob Store holds no entry for an
\* image reference of a question the cascade removed.
C7_CascadeReclaimsBlobs ==
    Dispatched({"DELETE_EXAM"}) =>
        KeySet(QuestionsOf(last.pre, last.act.examId)) \cap DOMAIN blobs = {}

Targets(act) ==
    IF act.type = "DELETE_QUESTION" THEN {act.questionId} ELSE act.questionIds

\* C8: after deleteQuestion / deleteQuestions, the Blob Store has no entry for
\* a key that a deleted question held, and the entries of the questions that
\* remain are still there.
C8_DeleteQuestionsReclaimsBlobs ==
    Dispatched({"DELETE_QUESTION", "DELETE_QUESTIONS"}) =>
        LET removed == SelectSeq(last.pre.questions, LAMBDA q : q.id \in Targets(last.act))
        IN /\ KeySet(removed) \cap DOMAIN last.blobs = {}
           /\ Ids(state.questions) \cap Targets(last.act) = {}
           /\ \A k \in KeySet(state.questions) :
                k \in DOMAIN last.blobs /\ IsBase64(last.blobs[k])

C8_Witness ==
    /\ Dispatched({"DELETE_QUESTIONS"})
    /\ \E q \in Range(last.pre.questions) :
        /\ q.id \in Targets(last.act)
        /\ KeySet(<<q>>) # {}
        /\ AnswerUrls(q) # <<>>
    /\ KeySet(state.questions) # {}

NoDuplicates(s) == \A i, j \in 1..Len(s) : s[i] = s[j] => i = j

\* C9: ADD_TAG_TO_QUESTIONS applied twice in a row leaves every question with
\* the tags it has after one application, and no question gets a tag twice.
C9_AddTagIdempotent ==
    \A ids \in SUBSET Ids(state.questions), tagId \in Ids(state.tags) :
        LET action == [type |-> "ADD_TAG_TO_QUESTIONS", questionIds |-> ids, tagId |-> tagId]
            once == AppReducer(state, action)
            twice == AppReducer(once, action)
        IN /\ twice.questions = once.questions
           /\ \A q \in Range(once.questions) : NoDuplicates(q.tags)
           /\ \A q \in Range(once.questions) : q.id \in ids => tagId \in Range(q.tags)

C9_Witness ==
    /\ Dispatched({"ADD_TAG_TO_QUESTIONS"})
    /\ \E q \in Range(last.pre.questions) :
        q.id \in last.act.questionIds /\ last.act.tagId \in Range(q.tags)
    /\ \E q \in Range(last.pre.questions) :
        q.id \in last.act.questionIds /\ last.act.tagId \notin Range(q.tags)

\* C10: a file whose bytes were already uploaded into the exam, earlier in
\* the batch or by an upload that has been committed, is skipped and counted:
\* the exam holds one question per digest.
C10_UploadDeduplicates ==
    \A p \in Procs :
        (procs[p].op = "handleFiles" /\ procs[p].pc = "done") =>
            LET c == procs[p]
                digests == {CalculateHash(c.arg.files[i]) : i \in 1..Len(c.arg.files)}
            IN /\ c.skipped = Len(c.arg.files) - Cardinality(digests \ c.hashes)
               /\ \A d \in digests :
                    Count([i \in 1..Len(state.questions) |->
                            /\ state.questions[i].examId = c.arg.examId
                            /\ Has(state.questions[i], "notes")
                            /\ state.questions[i].notes = d]) = 1

C10_Witness ==
    /\ Dispatched({"ADD_QUESTIONS"})
    /\ last.call.arg.files = <<7, 7>>
    /\ last.call.skipped = 1
    /\ QuestionsOf(last.pre, last.call.arg.examId) = <<>>
    /\ \E p \in Procs :
        /\ procs[p].op = "handleFiles" /\ procs[p].pc = "done"
        /\ procs[p].arg = [examId |-> last.call.arg.examId, files |-> <<7>>]
        /\ procs[p].skipped = 1
    /\ Len(QuestionsOf(state, last.call.arg.examId)) = 1

\* C11: addQuestions puts every inline image it is given into the Blob Store
\* and adds one question per record, whose imageUrl is the reference; getImage
\* of the reference returns the payload, and no question of the Record Store
\* holds an inline payload.
C11_AddQuestionsStoresImages ==
    /\ \A q \in Range(state.questions) : \A i \in 1..Len(ImageUrls(q)) :
            ~IsBase64(ImageUrls(q)[i])
    /\ Dispatched({"ADD_QUESTIONS"}) =>
        LET files == last.call.arg.files
            payload == last.act.payload
            n == Len(last.pre.questions)
        IN /\ Len(payload) =
                Cardinality({CalculateHash(files[j]) : j \in 1..Len(files)} \ last.call.hashes)
           /\ Len(state.questions) = n + Len(payload)
           /\ \A i \in 1..Len(payload) :
                /\ state.questions[n + i] = payload[i]
                /\ IsImageKey(payload[i].imageUrl)
                /\ ActualKey(payload[i].imageUrl) \in DOMAIN last.blobs
                /\ \E j \in 1..Len(files) :
                    /\ payload[i].notes = CalculateHash(files[j])
                    /\ GetImage(last.blobs, payload[i].imageUrl) = FileToBase64(files[j])

C11_Witness ==
    /\ Dispatched({"ADD_QUESTIONS"})
    /\ last.call.arg.files = <<8>>
    /\ Len(state.questions) = Len(last.pre.questions) + 1
    /\ \E q \in Range(state.questions) :
        /\ q.id \notin Ids(last.pre.questions)
        /\ IsImageKey(q.imageUrl)
        /\ ActualKey(q.imageUrl) \in DOMAIN blobs
        /\ GetImage(blobs, q.imageUrl) = DataUri(8)

\* what the Blob Store b returns for the image url u of a question
Payload(b, u) ==
    IF IsImageKey(u) THEN GetImage(b, u) ELSE IF u = JsonNull THEN Undefined ELSE u

\* q1 read with the Blob Store b1 has the content of q2 read with b2: the
\* same fields, and image for image the same payload
SameContent(q1, b1, q2, b2) ==
    /\ Omit(Omit(q1, "imageUrl"), "answer") = Omit(Omit(q2, "imageUrl"), "answer")
    /\ (IF Has(q1, "imageUrl") THEN Payload(b1, q1.imageUrl) ELSE Undefined)
        = (IF Has(q2, "imageUrl") THEN Payload(b2, q2.imageUrl) ELSE Undefined)
    /\ Has(q1, "answer") = Has(q2, "answer")
    /\ Len(AnswerUrls(q1)) = Len(AnswerUrls(q2))
    /\ \A j \in 1..Len(AnswerUrls(q1)) :
            Payload(b1, AnswerUrls(q1)[j]) = Payload(b2, AnswerUrls(q2)[j])

\* the last dispatch is the overwrite with the file exported from the state
\* and the Blob Store the call found
RoundTrip ==
    /\ Dispatched({"REPLACE_DATA"})
    /\ last.call.arg = ValidatedAppState(HandleExport(last.pre, last.call.blobs0).data)

\* C12: export followed by import with replace gives back the exams, the
\* tags and the questions, every image with the payload it had before the
\* export, whatever its new key.
C12_ExportImportRoundTrip ==
    RoundTrip =>
        /\ state.exams = last.pre.exams
        /\ state.tags = last.pre.tags
        /\ Len(state.questions) = Len(last.pre.questions)
        /\ \A i \in 1..Len(state.questions) :
                SameContent(state.questions[i], last.blobs,
                            last.pre.questions[i], last.call.blobs0)

C12_Witness ==
    /\ RoundTrip
    /\ \E q \in Range(last.pre.questions) :
        /\ Has(q, "imageUrl") /\ IsImageKey(q.imageUrl)
        /\ AnswerUrls(q) # <<>> /\ IsImageKey(AnswerUrls(q)[1])
        /\ GetImage(last.call.blobs0, q.imageUrl) = DataUri(7)
    /\ KeySet(last.pre.questions) # {}
    /\ KeySet(last.pre.questions) \cap KeySet(state.questions) = {}
    /\ KeySet(state.questions) \subseteq DOMAIN blobs
    /\ Cardinality(KeySet(state.questions)) = Cardinality(KeySet(last.pre.questions))

\* the inline payloads among the image urls of q
InlinePayloads(q) == {ImageUrls(q)[i] : i \in {j \in 1..Len(ImageUrls(q)) : IsBase64(ImageUrls(q)[j])}}

\* C13: after mergeData or replaceData no question of the Record Store holds
\* an inline payload, and every inline payload of an imported question is in
\* the Blob Store under a fresh key that the question refers to.
C13_NoInlineAfterImport ==
    Dispatched({"MERGE_DATA", "REPLACE_DATA"}) =>
        /\ \A q \in Range(state.questions) : InlinePayloads(q) = {}
        /\ \A q0 \in Range(last.call.arg.questions) : \A x \in InlinePayloads(q0) :
            \E q \in Range(state.questions) : \E k \in KeySet(<<q>>) :
                /\ q.id = q0.id
                /\ k \in DOMAIN last.blobs
                /\ last.blobs[k] = x
                /\ k \notin KeySet(last.pre.questions)

C13_Witness ==
    /\ Dispatched({"MERGE_DATA"})
    /\ \E q0 \in Range(last.call.arg.questions) :
        /\ q0.id \in Ids(last.pre.questions)
        /\ Cardinality(InlinePayloads(q0)) = 2
        /\ \E q \in Range(state.questions) :
            /\ q.id = q0.id
            /\ Cardinality(KeySet(<<q>>)) = 2
            /\ KeySet(<<q>>) \subseteq DOMAIN blobs
    /\ Len(state.questions) = Len(last.pre.questions)

\* C14: reading a file that lacks data, data.exams or data.questions changes
\* neither the Record Store nor the Blob Store, dispatches nothing and leaves
\* no document on offer; a file that has both arrays is offered as it is,
\* with tags defaulting to the empty array.
C14_MalformedImportRejected ==
    [][\A p \in Procs :
        (procs'[p].op = "handleFileImport" /\ procs'[p] # procs[p]) =>
            LET file == procs'[p].arg IN
            /\ state' = state
            /\ blobs' = blobs
            /\ last' = last
            /\ IF Has(file, "data") /\ Has(file.data, "exams") /\ Has(file.data, "questions")
               THEN /\ procs'[p].pc = "done"
                    /\ importedData' =
                        [exams |-> file.data.exams, questions |-> file.data.questions,
                         tags |-> IF Has(file.data, "tags") THEN file.data.tags ELSE <<>>]
               ELSE /\ procs'[p].pc = "failed"
                    /\ importedData' = <<>>]_vars

C14_Witness ==
    /\ \E p \in Procs :
        /\ procs[p].op = "handleFileImport"
        /\ procs[p].pc = "failed"
        /\ Has(procs[p].arg, "data")
        /\ Has(procs[p].arg.data, "exams")
        /\ ~Has(procs[p].arg.data, "questions")
    /\ importedData = <<>>
    /\ state = PersistedState
    /\ blobs = PersistedBlobs
    /\ calls = 1

\* the import of slot p has ended because a storeImage failed (a replaceData
\* that got as far as storing has deleted the blobs of the state)
ImportFailedStoring(p) ==
    /\ procs[p].op \in {"mergeData", "replaceData"}
    /\ procs[p].pc = "failed"
    /\ \E q \in Range(procs[p].arg.questions) : InlinePayloads(q) # {}
    /\ procs[p].op = "replaceData" => KeySet(state.questions) \cap DOMAIN blobs = {}

\* C15: an import in which a blob write failed has still completed: every
\* imported exam, question and tag is in the Record Store.
C15_ImportSurvivesBlobFailure ==
    \A p \in Procs :
        ImportFailedStoring(p) =>
            \A f \in Collections : Ids(procs[p].arg[f]) \subseteq Ids(state[f])

\* the ids of an array occur once each
UniqueIds(s) == \A i, j \in 1..Len(s) : s[i].id = s[j].id => i = j

\* the actions that update records in place
UpdateTypes ==
    {"UPDATE_EXAM", "UPDATE_QUESTION", "UPDATE_QUESTIONS", "UPDATE_TAG",
     "ADD_TAG_TO_QUESTIONS", "REMOVE_TAG_FROM_QUESTIONS"}

\* C16: in every state reached by the calls of the store, from a state of
\* unique ids and with documents of unique ids, no two records of a
\* collection share an id, and an update leaves every record's id (and the
\* order and number of the records) as it was.
C16_IdsUniqueAndImmutable ==
    /\ \A f \in Collections : UniqueIds(state[f])
    /\ Dispatched(UpdateTypes) =>
        \A f \in Collections :
            /\ Len(state[f]) = Len(last.pre[f])
            /\ \A i \in 1..Len(state[f]) : state[f][i].id = last.pre[f][i].id

\* an update has changed a record of a store that an earlier call had grown
C16_Witness ==
    /\ Dispatched(UpdateTypes)
    /\ state # last.pre
    /\ \E f \in Collections : Len(state[f]) > 2

\* C17: every question's examId is the id of an exam of the store, in every
\* state, also when deleteExam(E) runs while an addQuestions for exam E is
\* still waiting for its blob writes.
C17_QuestionsReferenceExams ==
    \A q \in Range(state.questions) : q.examId \in Ids(state.exams)

\* C18: no tag is applied across exams: every tag that a question's tags
\* name is a tag of the question's exam.
C18_TagsMatchExam ==
    \A q \in Range(state.questions) :
        Has(q, "tags") =>
            \A i \in 1..Len(q.tags) :
                \A t \in Range(state.tags) :
                    t.id = q.tags[i] => BelongsTo(t, q.examId)

\* the ids that action act names are absent from the state s: the one id of
\* a single-record action, every question id of a bulk action, or the tag
\* id of a tag action
NamesAbsent(act, s) ==
    CASE act.type \in {"UPDATE_EXAM", "DELETE_EXAM"} -> act.examId \notin Ids(s.exams)
      [] act.type \in {"UPDATE_QUESTION", "DELETE_QUESTION"} ->
            act.questionId \notin Ids(s.questions)
      [] act.type \in {"UPDATE_QUESTIONS", "DELETE_QUESTIONS"} ->
            act.questionIds \cap Ids(s.questions) = {}
      [] act.type = "UPDATE_TAG" -> act.payload.id \notin Ids(s.tags)
      [] act.type = "DELETE_TAG" -> act.tagId \notin Ids(s.tags)
      [] act.type \in {"ADD_TAG_TO_QUESTIONS", "REMOVE_TAG_FROM_QUESTIONS"} ->
            \/ act.questionIds \cap Ids(s.questions) = {}
            \/ act.tagId \notin Ids(s.tags)
      [] OTHER -> FALSE

\* the call c was made with ids that are absent from the state s
CallNamesAbsent(c, s) ==
    CASE c.op = "deleteExam" -> c.arg \notin Ids(s.exams)
      [] c.op = "deleteQuestion" -> c.arg \notin Ids(s.questions)
      [] c.op = "deleteQuestions" -> c.arg \cap Ids(s.questions) = {}
      [] c.op = "updateQuestion" -> c.arg.id \notin Ids(s.questions)
      [] OTHER -> FALSE

\* C19: a transition of the store that names an absent id is a no-op: the
\* collections are as they were before it, and the call has not failed.
C19_AbsentIdsAreNoOps ==
    /\ NamesAbsent(last.act, last.pre) => state = last.pre
    /\ \A p \in Procs :
        CallNamesAbsent(procs[p], state) => procs[p].pc \in {"idle", "done"}

\* C20: deleteTag(T) removes the tag T and takes T out of the tags of every
\* question; no question is deleted, every other tag id of a question stays,
\* and the other tags and the exams are as they were.
C20_DeleteTagDetaches ==
    Dispatched({"DELETE_TAG"}) =>
        LET T == last.act.tagId IN
        /\ T \notin Ids(state.tags)
        /\ state.tags = SelectSeq(last.pre.tags, LAMBDA t : t.id # T)
        /\ state.exams = last.pre.exams
        /\ Len(state.questions) = Len(last.pre.questions)
        /\ \A i \in 1..Len(state.questions) :
            /\ state.questions[i].id = last.pre.questions[i].id
            /\ Range(state.questions[i].tags) = Range(last.pre.questions[i].tags) \ {T}
            /\ Omit(state.questions[i], "tags") = Omit(last.pre.questions[i], "tags")

\* a stored tag was deleted that a question held next to another tag
C20_Witness ==
    /\ Dispatched({"DELETE_TAG"})
    /\ last.act.tagId \in Ids(last.pre.tags)
    /\ \E i \in 1..Len(state.questions) :
        /\ last.act.tagId \in Range(last.pre.questions[i].tags)
        /\ state.questions[i].tags # <<>>

\* the questions_meta array that localStorage holds
StoredMeta == JsonParse(localStorage.questions_meta)

\* C21: what the persistence effect has written holds no inline image: a
\* persisted question has an imageUrl only if the question's imageUrl is a
\* Blob Store reference, its answer.imageUrls are the references among the
\* question's, and every other field is the question's.
C21_PersistedMetaHasNoInline ==
    isInitialized =>
        /\ Len(StoredMeta) = Len(state.questions)
        /\ \A i \in 1..Len(state.questions) :
            LET q == state.questions[i]
                m == StoredMeta[i]
            IN /\ Has(m, "imageUrl") <=> (Has(q, "imageUrl") /\ IsImageKey(q.imageUrl))
               /\ Has(m, "imageUrl") => m.imageUrl = q.imageUrl
               /\ Has(m, "answer") <=> Has(q, "answer")
               /\ Has(m, "answer") =>
                    /\ Has(m.answer, "imageUrls") <=> Has(q.answer, "imageUrls")
                    /\ Has(m.answer, "imageUrls") =>
                        /\ \A j \in 1..Len(m.answer.imageUrls) :
                                IsImageKey(m.answer.imageUrls[j])
                        /\ m.answer.imageUrls = SelectSeq(q.answer.imageUrls, IsImageKey)
                    /\ Omit(m.answer, "imageUrls") = Omit(q.answer, "imageUrls")
               /\ Omit(Omit(m, "imageUrl"), "answer") = Omit(Omit(q, "imageUrl"), "answer")

\* the state holds a question whose imageUrl is inline and whose answer has a
\* reference next to an inline image, and the effect has written it
C21_Witness ==
    /\ isInitialized
    /\ \E q \in Range(state.questions) :
        /\ Has(q, "imageUrl") /\ ~IsImageKey(q.imageUrl)
        /\ Has(q, "answer")
        /\ \E j, k \in 1..Len(AnswerUrls(q)) :
            IsImageKey(AnswerUrls(q)[j]) /\ ~IsImageKey(AnswerUrls(q)[k])

\* the collection that initializer() reads from a key of localStorage
StoredUnder == [exams |-> "exams", questions |-> "questions_meta", tags |-> "tags"]

AwaitsBlobStore(p) == procs[p].pc \in {"storing", "deleting", "reading"}

\* C23: once the database has failed to open it stays failed: no later
\* step opens it or changes the Blob Store, and a call that awaits
\* storeImage, deleteImages or getImage can only fail.
C23_OpenFailureIsFinal ==
    [][db = "failed" =>
        /\ db' = "failed"
        /\ blobs' = blobs
        /\ \A p \in Procs :
            (AwaitsBlobStore(p) /\ procs'[p] # procs[p]) => procs'[p].pc = "failed"]_vars

\* after the open has failed, an export awaits getImage
C23_Witness ==
    /\ db = "failed"
    /\ \E p \in Procs : procs[p].pc = "reading"

\* C24: when the database cannot be opened the store goes on in memory: no
\* call of addQuestions, deleteQuestion, deleteExam or replaceData has ended
\* in a failure.
C24_DegradesToMemory ==
    db = "failed" =>
        \A p \in Procs :
            procs[p].op \in {"handleFiles", "deleteQuestion", "deleteExam", "replaceData"}
                => procs[p].pc # "failed"

ExportOps == {"handleExport", "exportExamAsJson"}

\* the questions of the document d that the export op has written, and the
\* questions of the store that it was written from
ExportedQuestions(op, d) == IF op = "handleExport" THEN d.data.questions ELSE d.questions

SourceQuestions(op, d) ==
    IF op = "handleExport" THEN state.questions
    ELSE SelectSeq(state.questions, LAMBDA q : q.examId = d.exam.id)

\* the url u of a question and the url e that stands for it in the document:
\* a reference with a live entry has become the entry's payload
Resolved(u, e) ==
    (IsImageKey(u) /\ ActualKey(u) \in DOMAIN blobs) => e = blobs[ActualKey(u)]

\* the document of a finished export holds no reference, and holds the
\* payload of every reference that has an entry
ExportResolves(p) ==
    LET op == procs[p].op
        qs == SourceQuestions(op, procs[p].arg)
        ds == ExportedQuestions(op, procs[p].arg)
    IN /\ Len(ds) = Len(qs)
       /\ \A i \in 1..Len(ds) :
            /\ Has(ds[i], "imageUrl") => ~IsImageKey(ds[i].imageUrl)
            /\ \A j \in 1..Len(AnswerUrls(ds[i])) : ~IsImageKey(AnswerUrls(ds[i])[j])
            /\ Has(qs[i], "imageUrl") /\ IsImageKey(qs[i].imageUrl)
                    /\ ActualKey(qs[i].imageUrl) \in DOMAIN blobs
                => Has(ds[i], "imageUrl") /\ Resolved(qs[i].imageUrl, ds[i].imageUrl)
            /\ Len(AnswerUrls(ds[i])) = Len(AnswerUrls(qs[i]))
            /\ \A j \in 1..Len(AnswerUrls(qs[i])) :
                    Resolved(AnswerUrls(qs[i])[j], AnswerUrls(ds[i])[j])

\* C25: an export changes neither the Record Store nor the Blob Store (nor
\* what is persisted), and its document holds, for every reference of a
\* question that has a Blob Store entry, the entry's payload, and no reference.
C25_ExportResolvesAndKeepsState ==
    /\ [](\A p \in Procs :
            (procs[p].op \in ExportOps /\ procs[p].pc = "done") => ExportResolves(p))
    /\ [][(\E p \in Procs : procs'[p] # procs[p] /\ procs'[p].op \in ExportOps) =>
            /\ state' = state
            /\ blobs' = blobs
            /\ localStorage' = localStorage]_vars

\* an exam's export has finished on a question whose image and answer image
\* are stored
C25_Witness ==
    \E p \in Procs :
        /\ procs[p].op = "exportExamAsJson"
        /\ procs[p].pc = "done"
        /\ \E q \in Range(SourceQuestions(procs[p].op, procs[p].arg)) :
            /\ Has(q, "imageUrl") /\ IsImageKey(q.imageUrl)
            /\ ActualKey(q.imageUrl) \in DOMAIN blobs
            /\ \E j \in 1..Len(AnswerUrls(q)) : IsImageKey(AnswerUrls(q)[j])

\* a question without its inline images: imageUrl only if it is a reference,
\* and the references among answer.imageUrls
WithoutInline(q) ==
    LET q1 == IF Has(q, "imageUrl") /\ ~IsImageKey(q.imageUrl) THEN Omit(q, "imageUrl") ELSE q
    IN IF Has(q1, "answer") /\ Has(q1.answer, "imageUrls")
       THEN [q1 EXCEPT !.answer.imageUrls = SelectSeq(@, IsImageKey)]
       ELSE q1

\* a restart would read back the exams, the tags and the questions of the
\* state, the questions without their inline images
Rehydrates ==
    Initializer(localStorage) =
        [exams |-> state.exams,
         questions |-> [i \in 1..Len(state.questions) |-> WithoutInline(state.questions[i])],
         tags |-> state.tags]

TagSetChanges(q) ==
    /\ q.id \in last.act.questionIds
    /\ IF last.act.type = "ADD_TAG_TO_QUESTIONS"
       THEN last.act.tagId \notin Range(q.tags)
       ELSE last.act.tagId \in Range(q.tags)

\* C27: after ADD_TAG_TO_QUESTIONS or REMOVE_TAG_FROM_QUESTIONS the questions
\* are the same in number and order; a question whose tag set changes gets
\* the tag appended (or taken out) and a later updatedAt, and keeps its other
\* properties; every other question, targeted or not, is what it was, its
\* tags and its updatedAt included.
C27_TagChangeBumpsUpdatedAt ==
    Dispatched({"ADD_TAG_TO_QUESTIONS", "REMOVE_TAG_FROM_QUESTIONS"}) =>
        /\ Len(state.questions) = Len(last.pre.questions)
        /\ state.exams = last.pre.exams
        /\ state.tags = last.pre.tags
        /\ \A i \in 1..Len(last.pre.questions) :
            LET q == last.pre.questions[i]
                r == state.questions[i]
            IN IF TagSetChanges(q)
               THEN /\ r.tags = IF last.act.type = "ADD_TAG_TO_QUESTIONS"
                                THEN Append(q.tags, last.act.tagId)
                                ELSE SelectSeq(q.tags, LAMBDA id : id # last.act.tagId)
                    /\ Has(r, "updatedAt")
                    /\ Has(q, "updatedAt") => r.updatedAt > q.updatedAt
                    /\ Omit(Omit(r, "tags"), "updatedAt") = Omit(Omit(q, "tags"), "updatedAt")
               ELSE /\ Has(r, "updatedAt") <=> Has(q, "updatedAt")
                    /\ r = q

\* one dispatch with a targeted question that already has the tag, stamped by
\* an earlier call, and a targeted question that gets it
C27_Witness ==
    /\ Dispatched({"ADD_TAG_TO_QUESTIONS"})
    /\ \E q \in Range(last.pre.questions) :
        /\ q.id \in last.act.questionIds
        /\ last.act.tagId \in Range(q.tags)
        /\ Has(q, "updatedAt")
    /\ \E i \in 1..Len(last.pre.questions) :
        /\ TagSetChanges(last.pre.questions[i])
        /\ state.questions[i].updatedAt = calls

\* C28: also when upload handlers of an exam overlap, no two image questions
\* of one exam carry the same digest in notes.
C28_NoSharedDigest ==
    \A i, j \in 1..Len(state.questions) :
        LET q == state.questions[i]
            r == state.questions[j]
        IN (/\ q.examId = r.examId
            /\ q.type = "image" /\ r.type = "image"
            /\ Has(q, "notes") /\ Has(r, "notes")
            /\ q.notes = r.notes) => i = j

\* the call that has just dispatched is an updateQuestion with answer images
SavedAnswerImages ==
    /\ Dispatched({"UPDATE_QUESTION"})
    /\ last.call.op = "updateQuestion"
    /\ Has(last.call.arg.data, "answer")

\* C29: when updateQuestion(id, {answer: {imageUrls: L}}) dispatches, the
\* dispatched list has at every position of an inline image of L a reference
\* that was not in use when the call started, whose entry is that image, and
\* at every other position the URL of L; of the question's old answer keys,
\* those that are not in the dispatched list have no entry any more and the
\* others still have theirs; no other entry of the Blob Store has changed;
\* and the reducer gives the question the dispatched list.
C29_UpdateQuestionSwapsAnswerImages ==
    SavedAnswerImages =>
        LET L == last.call.arg.data.answer.imageUrls
            N == last.act.data.answer.imageUrls
            before == last.call.blobs0
            q == Find(last.pre.questions, last.act.questionId)[1]
            old == {ActualKey(u) : u \in {v \in Range(AnswerUrls(q)) : IsImageKey(v)}}
            fresh == {ActualKey(N[j]) : j \in {i \in 1..Len(L) : IsBase64(L[i])}}
            dropped == {k \in old : IdbUrl(k) \notin Range(N)}
        IN /\ Len(N) = Len(L)
           /\ \A j \in 1..Len(L) :
                IF IsBase64(L[j])
                THEN /\ IsImageKey(N[j])
                     /\ ActualKey(N[j]) \notin DOMAIN before \cup KeySet(last.pre.questions)
                     /\ ActualKey(N[j]) \in DOMAIN last.blobs
                     /\ last.blobs[ActualKey(N[j])] = L[j]
                     /\ \A i \in 1..Len(N) : N[i] = N[j] => i = j
                ELSE N[j] = L[j]
           /\ DOMAIN last.blobs = (DOMAIN before \ dropped) \cup fresh
           /\ \A k \in DOMAIN before \ dropped : last.blobs[k] = before[k]
           /\ \A r \in Range(state.questions) :
                r.id = last.act.questionId => r.answer.imageUrls = N

\* an answer saved with a new inline image in front of a kept key, while
\* another old key of the question is left out
C29_Witness ==
    /\ SavedAnswerImages
    /\ Len(last.act.data.answer.imageUrls) > 1
    /\ IsBase64(last.call.arg.data.answer.imageUrls[1])
    /\ \E k \in DOMAIN last.call.blobs0 :
        /\ IdbUrl(k) \in Range(last.act.data.answer.imageUrls)
        /\ k \in DOMAIN last.blobs

\* an answer saved without an old key that had an entry
C29_WitnessDrop ==
    /\ SavedAnswerImages
    /\ \E k \in DOMAIN last.call.blobs0 \ DOMAIN last.blobs :
        IdbUrl(k) \in Range(AnswerUrls(Find(last.pre.questions, last.act.questionId)[1]))

DeleteOps == {"deleteQuestion", "deleteQuestions", "deleteExam"}

\* the questions of s that the deletion call c is to remove
TargetedBy(c, s) ==
    SelectSeq(s.questions,
              LAMBDA q : CASE c.op = "deleteQuestion" -> q.id = c.arg
                           [] c.op = "deleteQuestions" -> q.id \in c.arg
                           [] c.op = "deleteExam" -> q.examId = c.arg)

\* C30: the step in which the deleteImages of a deleteQuestion,
\* deleteQuestions or deleteExam call fails and ends the call dispatches
\* nothing and writes nothing; the collections are what they were, and they
\* still hold the questions the call was to remove, with the keys it
\* collected when it was called.
C30_FailedDeletionChangesNothing ==
    [][\A p \in Procs :
        (/\ procs[p].op \in DeleteOps
         /\ procs[p].pc = "deleting"
         /\ procs'[p].pc = "failed") =>
            /\ blobs' = blobs
            /\ state' = state
            /\ last' = last
            /\ localStorage' = localStorage
            /\ ImageKeysOf(TargetedBy(procs[p], state')) = procs[p].keys]_vars

\* a deleteExam call has failed, and the exam and its questions are there
C30_Witness ==
    \E p \in Procs :
        /\ procs[p].op = "deleteExam"
        /\ procs[p].pc = "failed"
        /\ procs[p].arg \in Ids(state.exams)
        /\ TargetedBy(procs[p], state) # <<>>

====
